---- MODULE Spec2Model ----
(***************************************************************************)
(* Model of tfx/extensions/google_cloud_ai_platform/runner.py:              *)
(*   start_aip_training              (lines 84-176)                          *)
(*   deploy_model_for_aip_prediction (lines 179-251)                         *)
(*                                                                           *)
(* Python values are modelled as follows.  A dict is a function whose        *)
(* domain is its key set.  None is the record NoneValue.  A text that the    *)
(* code only passes around is a string; a text that the code builds with     *)
(* format() or % is the record of the parts it is built from, so that two    *)
(* built texts are equal exactly when their parts are.                       *)
(*                                                                           *)
(* Every remote call (request.execute()) is one step of the model; the       *)
(* remote service is the environment and answers nondeterministically.       *)
(* A transport failure is modelled at the two submission calls the code and  *)
(* its documentation treat (jobs.create, models.create); the other calls     *)
(* are taken to return a response.                                           *)
(***************************************************************************)
EXTENDS Integers, Sequences, FiniteSets, TLC

(***************************************************************************)
(* Bounds of the model.                                                      *)
(***************************************************************************)
\* status checks (jobs.get) one invocation of start_aip_training may make
MaxPolls == 3
\* status checks per invocation when two invocations run concurrently
MaxConcPolls == 1
\* operations.get calls one deployment may make
MaxDeployPolls == 3
\* last instant of the wall clock, in ticks
MaxTime == 3
\* clock ticks per second: datetime.now() is finer than the %S it is printed with
TicksPerSecond == 2

(***************************************************************************)
(* Program constants.                                                        *)
(***************************************************************************)
_POLLING_INTERVAL_IN_SECONDS == 30

\* tfx.version.__version__, the release version of the running system
version__version__ == "tfx-release"

_TFX_IMAGE == [image |-> "gcr.io/tfx-oss-public/tfx", tag |-> version__version__]

(***************************************************************************)
(* Python values.                                                            *)
(***************************************************************************)
NoneValue == [py |-> "None"]

EmptyDict == [k \in {} |-> NoneValue]

\* the empty text ''
EmptyText == [text |-> ""]

PyTrue == [py |-> "True"]

PyFalse == [py |-> "False"]

\* bool(v) for the values the code tests: None, False, {} and '' are false
Truthy(v) == v \notin {NoneValue, PyFalse, EmptyDict, EmptyText}

\* d.get(k), None when k is missing
DictGet(d, k) == IF k \in DOMAIN d THEN d[k] ELSE NoneValue

\* d[k] = v
DictPut(d, k, v) == [x \in (DOMAIN d) \cup {k} |-> IF x = k THEN v ELSE d[x]]

\* the dict with the key read but left in place
DictPop_KeyKept(d, k) == d

\* the dict left by d.pop(k)
DictPop(d, k) == [x \in (DOMAIN d) \ {k} |-> d[x]]

\* the value dict.update returns (it changes its receiver in place)
DictUpdateResult(receiver, other) == NoneValue

(***************************************************************************)
(* The callers' inputs.                                                      *)
(***************************************************************************)
Procs == {1, 2}

Projects == {"p1", "p2"}

\* job_id argument: None, '', or a caller-chosen identifier
JobIdArgs == {NoneValue, EmptyText, [text |-> "job_a"]}

\* masterConfig of the caller: missing, {}, without imageUri, with imageUri
NoMasterConfig == [absent |-> "masterConfig"]
MasterConfigs ==
  { NoMasterConfig,
    EmptyDict,
    [acceleratorConfig |-> "gpu"],
    [imageUri |-> [image |-> "gcr.io/mine/trainer", tag |-> "v7"]] }

\* labels of the caller: missing, {}, a key of its own, a key the fixed labels also have
NoLabels == [absent |-> "labels"]
CallerLabels ==
  { NoLabels,
    EmptyDict,
    [team |-> "research"],
    [tfx_version |-> "callers-own", team |-> "research"] }

\* monitoring_utils.get_labels_dict(): the fixed observability labels
get_labels_dict == [tfx_version |-> version__version__, tfx_py_version |-> "3"]

\* the training_inputs mapping a caller passes: project is required
TrainingInputs(p, mc, lb) ==
  LET base == [project |-> p, scaleTier |-> "CUSTOM"]
      withMc == IF mc = NoMasterConfig THEN base ELSE DictPut(base, "masterConfig", mc)
  IN  IF lb = NoLabels THEN withMc ELSE DictPut(withMc, "labels", lb)

\* the passthrough arguments, which the code only serialises
executor_class_path == "tfx.components.trainer.executor.Executor"
json_inputs == "jsonify(input_dict)"
json_outputs == "jsonify(output_dict)"
json_exec_properties == "json.dumps(exec_properties, sort_keys=True)"

(***************************************************************************)
(* The remote training service.                                              *)
(***************************************************************************)
JobStates == {"PENDING", "RUNNING", "SUCCEEDED", "FAILED"}

TerminalStates == {"SUCCEEDED", "FAILED"}

Details == {"d1", "d2"}

\* the payloads jobs.get may answer with
JobResponses == [state : JobStates, detail : Details]

(***************************************************************************)
(* State.                                                                    *)
(***************************************************************************)
VARIABLES
  now,               \* wall clock, in ticks
  labels_builtin,    \* get_labels_dict() returns a builtin dict
  pc,                \* position of each invocation of start_aip_training
  caller_inputs,     \* the caller's training_inputs mapping
  job_id_arg,        \* the job_id argument
  training_inputs,   \* the local training_inputs (the copy of line 113)
  job_id,            \* the local job_id after line 150
  project,           \* the local project after line 146
  response,          \* the local response
  observed,          \* responses jobs.get has returned, in order
  trace,             \* remote calls, sleeps and log lines, in order
  exc                \* the exception the invocation ended with

trainVars == <<now, labels_builtin, pc, caller_inputs, job_id_arg, training_inputs,
               job_id, project, response, observed, trace, exc>>

VARIABLES
  dpc,               \* position of the invocation of deploy_model_for_aip_prediction
  serving_args,      \* ai_platform_serving_args
  model_version,     \* the model_version argument
  tf_version,        \* tf.__version__, as its dot-separated components
  py_major,          \* sys.version_info.major
  runtime_version,   \* the local runtime_version
  python_version,    \* the local python_version
  create_status,     \* HTTP status models.create was answered with (0: not yet)
  op_name,           \* the local op_name
  deploy_status,     \* the local deploy_status
  dobserved,         \* statuses operations.get has returned, in order
  dtrace,            \* remote calls, sleeps and log lines of the deployment, in order
  dexc               \* the exception the deployment ended with

deployVars == <<dpc, serving_args, model_version, tf_version, py_major, runtime_version,
                python_version, create_status, op_name, deploy_status, dobserved, dtrace, dexc>>

vars == <<trainVars, deployVars>>

NoException == [type |-> "None", arg |-> NoneValue]

(***************************************************************************)
(* Events of the trace.                                                      *)
(***************************************************************************)
LogEvent(level, what, detail) ==
  [op |-> "log", arg |-> [level |-> level, what |-> what, detail |-> detail]]

CreateEvent(body, parent) ==
  [op |-> "jobs.create", arg |-> [body |-> body, parent |-> parent]]

GetEvent(name) == [op |-> "jobs.get", arg |-> [name |-> name]]

SleepEvent(secs) == [op |-> "sleep", arg |-> [secs |-> secs]]

\* number of events of kind op in a trace
Count(tr, op) == Cardinality({k \in 1..Len(tr) : tr[k].op = op})

(***************************************************************************)
(* start_aip_training                                                        *)
(***************************************************************************)
\* datetime.datetime.now().strftime('%Y%m%d%H%M%S'): the clock cut to the second
strftime(t) == t \div TicksPerSecond

\* 'tfx_%s' % stamp
DefaultJobId(t) == [prefix |-> "tfx_", stamp |-> strftime(t)]

\* job_id or 'tfx_%s' % ...
ChooseJobId(arg, t) == IF Truthy(arg) THEN arg ELSE DefaultJobId(t)

\* 'projects/{}'.format(project)
ProjectPath(p) == [projects |-> p]

\* '{}/jobs/{}'.format(project_id, job_id)
JobName(p, j) == [parent |-> ProjectPath(p), jobs |-> j]

\* lines 130-133
JobArgs ==
  [executor_class_path |-> executor_class_path, inputs |-> json_inputs,
   outputs |-> json_outputs, exec_properties |-> json_exec_properties]

\* lines 135-138
WithMasterConfig(ti) ==
  IF ~Truthy(DictGet(ti, "masterConfig"))
  THEN DictPut(ti, "masterConfig", [imageUri |-> _TFX_IMAGE])
  ELSE ti

\* lines 141-142: the value of update(...) is what is stored
WithLabels(ti) ==
  DictPut(ti, "labels", DictUpdateResult(get_labels_dict, DictGet(ti, "labels")))

\* lines 113-142 on the local copy
BuildTrainingInputs(ci) == WithLabels(DictPut(WithMasterConfig(ci), "args", JobArgs))

\* the caller's mapping when line 113 does not copy: the local mapping is the caller's
CallerMapping_Aliased(ci, local) == local

\* the caller's mapping after the call: line 113 works on a copy
CallerMapping(ci, local) == ci

\* the three log lines of 116-120
ArgLogs ==
  << LogEvent("info", "json_inputs", [v |-> json_inputs]),
     LogEvent("info", "json_outputs", [v |-> json_outputs]),
     LogEvent("info", "json_exec_properties", [v |-> json_exec_properties]) >>

\* lines 113-156: build the job, choose its id, log the submission
Prepare(i) ==
  /\ pc[i] = "start"
  /\ ~labels_builtin
  /\ LET built == BuildTrainingInputs(caller_inputs[i])
         p == built["project"]
         jid == ChooseJobId(job_id_arg[i], now)
     IN  /\ training_inputs' = [training_inputs EXCEPT ![i] = DictPop(built, "project")]
         /\ caller_inputs' = [caller_inputs EXCEPT ![i] = CallerMapping(@, built)]
         /\ project' = [project EXCEPT ![i] = p]
         /\ job_id' = [job_id EXCEPT ![i] = jid]
         /\ trace' = [trace EXCEPT ![i] =
                        ArgLogs \o << LogEvent("info", "Submitting", [job |-> jid, project |-> p]) >>]
  /\ pc' = [pc EXCEPT ![i] = "submit"]
  /\ UNCHANGED <<now, labels_builtin, job_id_arg, response, observed, exc>>
  /\ UNCHANGED deployVars

\* lines 113-141 when get_labels_dict() is a builtin dict: update() takes at
\* most one positional argument and line 141 raises TypeError
PrepareRaises(i) ==
  /\ pc[i] = "start"
  /\ labels_builtin
  /\ trace' = [trace EXCEPT ![i] = ArgLogs]
  /\ training_inputs' = [training_inputs EXCEPT ![i] =
                           DictPut(WithMasterConfig(caller_inputs[i]), "args", JobArgs)]
  /\ caller_inputs' = [caller_inputs EXCEPT ![i] = CallerMapping(@, training_inputs'[i])]
  /\ exc' = [exc EXCEPT ![i] = [type |-> "TypeError", arg |-> [line |-> 141]]]
  /\ pc' = [pc EXCEPT ![i] = "raised"]
  /\ UNCHANGED <<now, labels_builtin, job_id_arg, job_id, project, response, observed>>
  /\ UNCHANGED deployVars

\* lines 151-159: jobs.create returns
CreateJob(i) ==
  /\ pc[i] = "submit"
  /\ LET job_spec == [jobId |-> job_id[i], trainingInput |-> training_inputs[i]]
     IN  trace' = [trace EXCEPT ![i] = Append(@, CreateEvent(job_spec, ProjectPath(project[i])))]
  /\ pc' = [pc EXCEPT ![i] = "get"]
  /\ UNCHANGED <<now, labels_builtin, caller_inputs, job_id_arg, training_inputs,
                 job_id, project, response, observed, exc>>
  /\ UNCHANGED deployVars

\* jobs.create fails in transport and the call is issued again
CreateJobFails_Retried(i) ==
  /\ pc[i] = "submit"
  /\ LET job_spec == [jobId |-> job_id[i], trainingInput |-> training_inputs[i]]
     IN  trace' = [trace EXCEPT ![i] = Append(@, CreateEvent(job_spec, ProjectPath(project[i])))]
  /\ UNCHANGED <<now, labels_builtin, pc, caller_inputs, job_id_arg, training_inputs,
                 job_id, project, response, observed, exc>>
  /\ UNCHANGED deployVars

\* lines 151-159: jobs.create fails in transport, the error leaves the function
CreateJobFails(i) ==
  /\ pc[i] = "submit"
  /\ LET job_spec == [jobId |-> job_id[i], trainingInput |-> training_inputs[i]]
     IN  trace' = [trace EXCEPT ![i] = Append(@, CreateEvent(job_spec, ProjectPath(project[i])))]
  /\ exc' = [exc EXCEPT ![i] = [type |-> "HttpError", arg |-> [line |-> 159]]]
  /\ pc' = [pc EXCEPT ![i] = "raised"]
  /\ UNCHANGED <<now, labels_builtin, caller_inputs, job_id_arg, training_inputs,
                 job_id, project, response, observed>>
  /\ UNCHANGED deployVars

\* both invocations are running
Concurrent == \A i \in Procs : pc[i] # "off"

PollBound == IF Concurrent THEN MaxConcPolls ELSE MaxPolls

\* the status request built with the job_id argument, not the chosen id
PolledJobName_Argument(i) == JobName(project[i], job_id_arg[i])

\* the job name the status request is built with (line 162)
PolledJobName(i) == JobName(project[i], job_id[i])

\* lines 162-164 and 167: request.execute() of the jobs.get request
GetJob(i) ==
  /\ pc[i] = "get"
  /\ Len(observed[i]) < PollBound
  /\ \E r \in JobResponses :
       /\ response' = [response EXCEPT ![i] = r]
       /\ observed' = [observed EXCEPT ![i] = Append(@, r)]
  /\ trace' = [trace EXCEPT ![i] = Append(@, GetEvent(PolledJobName(i)))]
  /\ pc' = [pc EXCEPT ![i] = "check"]
  /\ UNCHANGED <<now, labels_builtin, caller_inputs, job_id_arg, training_inputs,
                 job_id, project, exc>>
  /\ UNCHANGED deployVars

\* the loop condition with FAILED left out of the terminal states
KeepsPolling_NoFailed(r) == r.state # "SUCCEEDED"

\* the loop condition of line 165
KeepsPolling(r) == r.state \notin TerminalStates

\* the loop gives up after one sleep and the call returns
Sleep_GivesUp(i) ==
  /\ pc[i] = "check"
  /\ response[i].state \notin TerminalStates
  /\ trace' = [trace EXCEPT ![i] = Append(@, SleepEvent(_POLLING_INTERVAL_IN_SECONDS))]
  /\ pc' = [pc EXCEPT ![i] = "returned"]
  /\ UNCHANGED <<now, labels_builtin, caller_inputs, job_id_arg, training_inputs,
                 job_id, project, response, observed, exc>>
  /\ UNCHANGED deployVars

\* lines 165-166: the state is not terminal, sleep
Sleep(i) ==
  /\ pc[i] = "check"
  /\ KeepsPolling(response[i])
  /\ trace' = [trace EXCEPT ![i] = Append(@, SleepEvent(_POLLING_INTERVAL_IN_SECONDS))]
  /\ pc' = [pc EXCEPT ![i] = "get"]
  /\ UNCHANGED <<now, labels_builtin, caller_inputs, job_id_arg, training_inputs,
                 job_id, project, response, observed, exc>>
  /\ UNCHANGED deployVars

\* the test of line 169
JobFailed(r) == r.state = "FAILED"

\* the message formatted with the first response instead of the last
ReportedResponse_First(i) == observed[i][1]

\* the payload the message of line 170 is formatted with
ReportedResponse(i) == response[i]

\* RuntimeError raised without the error log line
RaiseFailed_NoLog(i) ==
  /\ pc[i] = "check"
  /\ response[i].state = "FAILED"
  /\ exc' = [exc EXCEPT ![i] = [type |-> "RuntimeError",
                                 arg |-> [job_name |-> JobName(project[i], job_id[i]),
                                          response |-> response[i]]]]
  /\ pc' = [pc EXCEPT ![i] = "raised"]
  /\ UNCHANGED <<now, labels_builtin, caller_inputs, job_id_arg, training_inputs,
                 job_id, project, response, observed, trace>>
  /\ UNCHANGED deployVars

\* lines 169-173: log the error and raise RuntimeError
RaiseFailed(i) ==
  /\ pc[i] = "check"
  /\ ~KeepsPolling(response[i])
  /\ JobFailed(response[i])
  /\ LET err_msg == [job_name |-> JobName(project[i], job_id[i]),
                     response |-> ReportedResponse(i)]
     IN  /\ trace' = [trace EXCEPT ![i] = Append(@, LogEvent("error", "did not succeed", err_msg))]
         /\ exc' = [exc EXCEPT ![i] = [type |-> "RuntimeError", arg |-> err_msg]]
  /\ pc' = [pc EXCEPT ![i] = "raised"]
  /\ UNCHANGED <<now, labels_builtin, caller_inputs, job_id_arg, training_inputs,
                 job_id, project, response, observed>>
  /\ UNCHANGED deployVars

\* lines 175-176: log the success and return
ReturnSucceeded(i) ==
  /\ pc[i] = "check"
  /\ ~KeepsPolling(response[i])
  /\ ~JobFailed(response[i])
  /\ trace' = [trace EXCEPT ![i] =
                 Append(@, LogEvent("info", "successful",
                                    [job_name |-> JobName(project[i], job_id[i])]))]
  /\ pc' = [pc EXCEPT ![i] = "returned"]
  /\ UNCHANGED <<now, labels_builtin, caller_inputs, job_id_arg, training_inputs,
                 job_id, project, response, observed, exc>>
  /\ UNCHANGED deployVars

\* the wall clock advances while an invocation has yet to read it
Tick ==
  /\ now < MaxTime
  /\ \E i \in Procs : pc[i] = "start"
  /\ now' = now + 1
  /\ UNCHANGED <<labels_builtin, pc, caller_inputs, job_id_arg, training_inputs,
                 job_id, project, response, observed, trace, exc>>
  /\ UNCHANGED deployVars

(***************************************************************************)
(* Version compatibility (lines 44-81).                                      *)
(***************************************************************************)
\* '1.15': '1.14'
_TF_COMPATIBILITY_OVERRIDE == (<<1, 15>> :> <<1, 14>>)

\* major.minor of the installed tensorflow with the override table ignored
_get_tf_runtime_version_NoOverride(tfv) == SubSeq(tfv, 1, 2)

\* lines 63-69: major.minor of the installed tensorflow, unless overridden
_get_tf_runtime_version(tfv) ==
  LET tf_major_minor == SubSeq(tfv, 1, 2)
  IN  IF tf_major_minor \in DOMAIN _TF_COMPATIBILITY_OVERRIDE
      THEN _TF_COMPATIBILITY_OVERRIDE[tf_major_minor]
      ELSE tf_major_minor

\* the table of line 81
CaipPythonVersions == (2 :> "2.7" @@ 3 :> "3.5")

\* line 81: the lookup raises KeyError for a major version the table lacks
_get_caip_python_version(major) == CaipPythonVersions[major]

(***************************************************************************)
(* The remote prediction service and the deployer's inputs.                  *)
(***************************************************************************)
ModelNames == {"model_a"}

ModelVersions == {"1", "2"}

TfVersions == {<<1, 13, 1>>, <<1, 15, 0>>, <<2, 0, 0>>}

PyMajors == {2, 3, 4}

serving_path == "gs://bucket/serving_model"

\* HTTP statuses of a failed models.create other than the conflict
OtherHttpStatuses == {403, 500}

OperationNames == {"operations/create_1", "operations/create_2"}

\* the version named by the bare model_version, without the v
VersionName_NoPrefix(mv) == [prefix |-> "", version |-> mv]

\* 'v{}'.format(model_version)
VersionName(mv) == [prefix |-> "v", version |-> mv]

\* the names the finished operation may report for the version it created
ResponseNames == {VersionName(mv) : mv \in ModelVersions}

OperationError == [code |-> 3, message |-> "Bad model detected"]

\* the statuses operations.get may answer with: each of done, error and
\* response may be missing
DeployStatuses ==
  LET dones == {[k \in {} |-> NoneValue], [done |-> PyFalse], [done |-> PyTrue]}
      errors == {[k \in {} |-> NoneValue], [error |-> OperationError]}
      responses == {[k \in {} |-> NoneValue]} \cup {[response |-> [name |-> n]] : n \in ResponseNames}
  IN  { [k \in (DOMAIN d) \cup (DOMAIN e) \cup (DOMAIN r) |->
           IF k \in DOMAIN d THEN d[k] ELSE IF k \in DOMAIN e THEN e[k] ELSE r[k]] :
        d \in dones, e \in errors, r \in responses }

DLogEvent(level, what, detail) ==
  [op |-> "log", arg |-> [level |-> level, what |-> what, detail |-> detail]]

DCallEvent(call, arg) == [op |-> call, arg |-> arg]

(***************************************************************************)
(* deploy_model_for_aip_prediction                                           *)
(***************************************************************************)
\* 'projects/{}/models/{}'.format(project_id, model_name)
ModelPath(p, m) == [parent |-> ProjectPath(p), models |-> m]

\* '{}/versions/{}'.format(model_name, name)
VersionPath(p, m, n) == [parent |-> ModelPath(p, m), versions |-> n]

\* line 200: regions defaults to []
Regions == IF "regions" \in DOMAIN serving_args THEN serving_args["regions"] ELSE << >>

\* lines 217-223
VersionBody ==
  [name |-> VersionName(model_version), regions |-> Regions, deployment_uri |-> serving_path,
   runtime_version |-> runtime_version, python_version |-> python_version]

DeployingLog ==
  DLogEvent("info", "Deploying", [model_version |-> model_version, args |-> serving_args])

\* lines 64-68: the warning _get_tf_runtime_version logs for tensorflow 2.x
RuntimeVersionLogs(tfv) ==
  IF tfv[1] = 2
  THEN << DLogEvent("warn", "tensorflow 2.x may not be supported", NoneValue) >>
  ELSE << >>

\* lines 194-202: log, read the arguments, resolve the versions
Resolve ==
  /\ dpc = "start"
  /\ py_major \in DOMAIN CaipPythonVersions
  /\ dtrace' = << DeployingLog >> \o RuntimeVersionLogs(tf_version)
  /\ runtime_version' = _get_tf_runtime_version(tf_version)
  /\ python_version' = _get_caip_python_version(py_major)
  /\ dpc' = "model"
  /\ UNCHANGED <<create_status, serving_args, model_version, tf_version, py_major, op_name,
                 deploy_status, dobserved, dexc>>
  /\ UNCHANGED trainVars

\* lines 194-202 when the table of line 81 has no entry: KeyError
ResolveRaises ==
  /\ dpc = "start"
  /\ py_major \notin DOMAIN CaipPythonVersions
  /\ dtrace' = << DeployingLog >> \o RuntimeVersionLogs(tf_version)
  /\ runtime_version' = _get_tf_runtime_version(tf_version)
  /\ dexc' = [type |-> "KeyError", arg |-> [key |-> py_major]]
  /\ dpc' = "raised"
  /\ UNCHANGED <<serving_args, model_version, tf_version, py_major, python_version, create_status,
                 op_name, deploy_status, dobserved>>
  /\ UNCHANGED trainVars

\* lines 205-206
ModelCreateEvent ==
  DCallEvent("models.create",
             [body |-> [name |-> serving_args["model_name"], regions |-> Regions],
              parent |-> ProjectPath(serving_args["project_id"])])

\* the test of line 212 taken for every client error status
IsConflict_AnyError(status) == status >= 400

\* the test of line 212
IsConflict(status) == status = 409

\* lines 204-208: models.create returns
CreateModel ==
  /\ dpc = "model"
  /\ dtrace' = Append(dtrace, ModelCreateEvent)
  /\ dpc' = "version"
  /\ create_status' = 200
  /\ UNCHANGED <<serving_args, model_version, tf_version, py_major, runtime_version,
                 python_version, op_name, deploy_status, dobserved, dexc>>
  /\ UNCHANGED trainVars

\* lines 204-215: models.create raises HttpError; 409 is logged and ignored,
\* any other status is raised as RuntimeError
CreateModelHttpError ==
  /\ dpc = "model"
  /\ \E status \in {409} \cup OtherHttpStatuses :
       /\ create_status' = status
       /\ IF IsConflict(status)
         THEN /\ dtrace' = dtrace \o << ModelCreateEvent,
                                        DLogEvent("warn", "already exists",
                                                  [model |-> serving_args["model_name"]]) >>
              /\ dpc' = "version"
              /\ dexc' = dexc
         ELSE /\ dtrace' = Append(dtrace, ModelCreateEvent)
              /\ dpc' = "raised"
              /\ dexc' = [type |-> "RuntimeError",
                          arg |-> [what |-> "AI Platform Push failed", status |-> status]]
  /\ UNCHANGED <<serving_args, model_version, tf_version, py_major, runtime_version,
                 python_version, op_name, deploy_status, dobserved>>
  /\ UNCHANGED trainVars

\* lines 217-229: versions.create returns the operation
CreateVersion ==
  /\ dpc = "version"
  /\ dtrace' = Append(dtrace,
                      DCallEvent("versions.create",
                                 [body |-> VersionBody,
                                  parent |-> ModelPath(serving_args["project_id"],
                                                       serving_args["model_name"])]))
  /\ \E n \in OperationNames : op_name' = n
  /\ dpc' = "poll"
  /\ UNCHANGED <<serving_args, model_version, tf_version, py_major, runtime_version,
                 python_version, create_status, deploy_status, dobserved, dexc>>
  /\ UNCHANGED trainVars

\* line 232: operations.get returns a status
GetOperation ==
  /\ dpc = "poll"
  /\ Len(dobserved) < MaxDeployPolls
  /\ \E s \in DeployStatuses :
       /\ deploy_status' = s
       /\ dobserved' = Append(dobserved, s)
  /\ dtrace' = Append(dtrace, DCallEvent("operations.get", [name |-> op_name]))
  /\ dpc' = "check"
  /\ UNCHANGED <<serving_args, model_version, tf_version, py_major, runtime_version,
                 python_version, create_status, op_name, dexc>>
  /\ UNCHANGED trainVars

\* the test of line 233
IsDone(s) == Truthy(DictGet(s, "done"))

\* the test of line 239
HasError(s) == "error" \in DOMAIN s

\* the default version named after the model_version argument
DefaultVersionPath_FromArgument(s) ==
  VersionPath(serving_args["project_id"], serving_args["model_name"], VersionName(model_version))

\* the name of lines 236-237
DefaultVersionPath(s) ==
  VersionPath(serving_args["project_id"], serving_args["model_name"], s["response"]["name"])

SuccessLog ==
  DLogEvent("info", "Successfully deployed",
            [model |-> ModelPath(serving_args["project_id"], serving_args["model_name"]),
             model_version |-> model_version, serving_path |-> serving_path])

\* lines 233-238 and 249-251: the operation is done; set the new version as
\* default, leave the loop, log the success and return
SetDefault ==
  /\ dpc = "check"
  /\ IsDone(deploy_status)
  /\ "response" \in DOMAIN deploy_status
  /\ dtrace' = dtrace \o << DCallEvent("versions.setDefault",
                                       [name |-> DefaultVersionPath(deploy_status)]),
                            SuccessLog >>
  /\ dpc' = "returned"
  /\ UNCHANGED <<serving_args, model_version, tf_version, py_major, runtime_version,
                 python_version, create_status, op_name, deploy_status, dobserved, dexc>>
  /\ UNCHANGED trainVars

\* lines 233-237 when the done status has no 'response': the subscript of
\* line 236 raises KeyError before the setDefault request is built
SetDefaultRaises ==
  /\ dpc = "check"
  /\ IsDone(deploy_status)
  /\ "response" \notin DOMAIN deploy_status
  /\ dexc' = [type |-> "KeyError", arg |-> [key |-> "response"]]
  /\ dpc' = "raised"
  /\ UNCHANGED <<serving_args, model_version, tf_version, py_major, runtime_version,
                 python_version, create_status, op_name, deploy_status, dobserved, dtrace>>
  /\ UNCHANGED trainVars

\* lines 239-244: not done and an error field: log it and raise RuntimeError
RaiseDeployError ==
  /\ dpc = "check"
  /\ ~IsDone(deploy_status)
  /\ HasError(deploy_status)
  /\ dtrace' = Append(dtrace, DLogEvent("error", "operation error", deploy_status["error"]))
  /\ dexc' = [type |-> "RuntimeError",
              arg |-> [what |-> "Failed to deploy model", error |-> deploy_status["error"]]]
  /\ dpc' = "raised"
  /\ UNCHANGED <<serving_args, model_version, tf_version, py_major, runtime_version,
                 python_version, create_status, op_name, deploy_status, dobserved>>
  /\ UNCHANGED trainVars

\* lines 246-247: sleep, log the heartbeat, poll again
DeploySleep ==
  /\ dpc = "check"
  /\ ~IsDone(deploy_status)
  /\ ~HasError(deploy_status)
  /\ dtrace' = dtrace \o << DCallEvent("sleep", [secs |-> _POLLING_INTERVAL_IN_SECONDS]),
                            DLogEvent("info", "still being deployed", NoneValue) >>
  /\ dpc' = "poll"
  /\ UNCHANGED <<serving_args, model_version, tf_version, py_major, runtime_version,
                 python_version, create_status, op_name, deploy_status, dobserved, dexc>>
  /\ UNCHANGED trainVars

(***************************************************************************)
(* Initial states.                                                           *)
(***************************************************************************)

TrainLocalsInit ==
  /\ training_inputs = [i \in Procs |-> EmptyDict]
  /\ job_id = [i \in Procs |-> NoneValue]
  /\ project = [i \in Procs |-> "unset"]
  /\ response = [i \in Procs |-> [state |-> "unset", detail |-> "unset"]]
  /\ observed = [i \in Procs |-> << >>]
  /\ trace = [i \in Procs |-> << >>]
  /\ exc = [i \in Procs |-> NoException]

DeployLocalsInit ==
  /\ runtime_version = << >>
  /\ python_version = "unset"
  /\ create_status = 0
  /\ op_name = "unset"
  /\ deploy_status = EmptyDict
  /\ dobserved = << >>
  /\ dtrace = << >>
  /\ dexc = NoException

\* no deployment is invoked
NoDeployment ==
  /\ dpc = "off"
  /\ serving_args = EmptyDict
  /\ model_version = "unset"
  /\ tf_version = << >>
  /\ py_major = 0
  /\ DeployLocalsInit

\* one caller invokes start_aip_training
InitOneTraining ==
  /\ NoDeployment
  /\ now = 0
  /\ labels_builtin \in BOOLEAN
  /\ pc = [i \in Procs |-> IF i = 1 THEN "start" ELSE "off"]
  /\ \E p \in Projects, mc \in MasterConfigs, lb \in CallerLabels :
       caller_inputs = [i \in Procs |-> IF i = 1 THEN TrainingInputs(p, mc, lb) ELSE EmptyDict]
  /\ \E j \in JobIdArgs : job_id_arg = [i \in Procs |-> IF i = 1 THEN j ELSE NoneValue]
  /\ TrainLocalsInit

\* two callers invoke start_aip_training from separate threads or processes
InitTwoTrainings ==
  /\ NoDeployment
  /\ now = 0
  /\ labels_builtin \in BOOLEAN
  /\ pc = [i \in Procs |-> "start"]
  /\ caller_inputs \in [Procs -> {TrainingInputs(p, NoMasterConfig, NoLabels) : p \in Projects}]
  /\ job_id_arg \in [Procs -> JobIdArgs]
  /\ TrainLocalsInit

\* the ai_platform_serving_args a caller passes: model_name and project_id
\* are required, regions is optional
ServingArgs ==
  { [model_name |-> m, project_id |-> p] : m \in ModelNames, p \in Projects } \cup
  { [model_name |-> m, project_id |-> p, regions |-> << "us-central1" >>] :
      m \in ModelNames, p \in Projects }

\* one caller invokes deploy_model_for_aip_prediction
InitDeployment ==
  /\ now = 0
  /\ labels_builtin = FALSE
  /\ pc = [i \in Procs |-> "off"]
  /\ caller_inputs = [i \in Procs |-> EmptyDict]
  /\ job_id_arg = [i \in Procs |-> NoneValue]
  /\ TrainLocalsInit
  /\ dpc = "start"
  /\ serving_args \in ServingArgs
  /\ model_version \in ModelVersions
  /\ tf_version \in TfVersions
  /\ py_major \in PyMajors
  /\ DeployLocalsInit

Init == InitOneTraining \/ InitTwoTrainings \/ InitDeployment

TrainingStep(i) ==
  \/ Prepare(i)
  \/ PrepareRaises(i)
  \/ CreateJob(i)
  \/ CreateJobFails(i)
  \/ GetJob(i)
  \/ Sleep(i)
  \/ RaiseFailed(i)
  \/ ReturnSucceeded(i)

DeploymentStep ==
  \/ Resolve
  \/ ResolveRaises
  \/ CreateModel
  \/ CreateModelHttpError
  \/ CreateVersion
  \/ GetOperation
  \/ SetDefault
  \/ SetDefaultRaises
  \/ RaiseDeployError
  \/ DeploySleep

Next ==
  \/ \E i \in Procs : TrainingStep(i)
  \/ Tick
  \/ DeploymentStep

Spec == Init /\ [][Next]_vars

\* the steps of start_aip_training and of the clock it reads
TrainingNext ==
  \/ \E i \in Procs : TrainingStep(i)
  \/ Tick

\* one invocation of start_aip_training on its caller's thread, which keeps
\* executing: a step of the invocation that stays possible is eventually taken
FairTraining ==
  /\ InitOneTraining
  /\ [][TrainingNext]_vars
  /\ \A i \in Procs : WF_vars(TrainingStep(i))

(***************************************************************************)
(* Properties of start_aip_training.                                         *)
(***************************************************************************)
Invocations == {i \in Procs : pc[i] # "off"}

Ended(i) == pc[i] \in {"returned", "raised"}

IsPollOp(e) == e.op \in {"jobs.get", "sleep"}

\* the status checks and sleeps of an invocation, in the order they happened
PollEvents(i) == SelectSeq(trace[i], IsPollOp)

\* the index of the last event of kind op in a trace, 0 when there is none
LastIndex(tr, op) ==
  IF \E k \in 1..Len(tr) : tr[k].op = op
  THEN CHOOSE k \in 1..Len(tr) : tr[k].op = op /\ \A m \in (k+1)..Len(tr) : tr[m].op # op
  ELSE 0

\* C1: the status check runs once per observed response up to and including
\* the first SUCCEEDED or FAILED one, status checks and sleeps alternate
\* (exactly one sleep between two consecutive checks), nothing is polled or
\* slept after the first terminal response, and a terminal first response
\* means one create call, one get call and no sleep.
C1_PollOncePerResponse ==
  \A i \in Invocations :
    LET pe == PollEvents(i)
        n == Len(observed[i])
    IN  /\ Count(trace[i], "jobs.get") = n
        /\ \A k \in 1..Len(pe) : pe[k].op = (IF k % 2 = 1 THEN "jobs.get" ELSE "sleep")
        /\ \A k \in 1..(n - 1) : observed[i][k].state \notin TerminalStates
        /\ (n > 0 /\ observed[i][n].state \in TerminalStates) => Len(pe) = 2 * n - 1
        /\ (n > 0 /\ observed[i][1].state \in TerminalStates) =>
             /\ Count(trace[i], "jobs.create") = 1
             /\ Count(trace[i], "jobs.get") = 1
             /\ Count(trace[i], "sleep") = 0

\* an invocation has seen PENDING, RUNNING and then a terminal state and ended
C1_Witness ==
  \E i \in Invocations :
    /\ Ended(i)
    /\ Len(observed[i]) = 3
    /\ observed[i][1].state = "PENDING"
    /\ observed[i][2].state = "RUNNING"
    /\ observed[i][3].state = "SUCCEEDED"
    /\ Count(trace[i], "sleep") = 2

\* C2: an invocation ends with RuntimeError exactly when the last state it
\* observed is FAILED; the error then carries the job name
\* projects/<project>/jobs/<job_id> and the last observed payload; when the
\* last observed state is SUCCEEDED it returns without raising.
C2_FailsIffLastStateFailed ==
  \A i \in Invocations :
    Ended(i) =>
      LET n == Len(observed[i])
          lastFailed == n > 0 /\ observed[i][n].state = "FAILED"
          lastSucceeded == n > 0 /\ observed[i][n].state = "SUCCEEDED"
      IN  /\ (exc[i].type = "RuntimeError") <=> lastFailed
          /\ lastFailed =>
               /\ pc[i] = "raised"
               /\ exc[i].arg.job_name =
                    [parent |-> [projects |-> caller_inputs[i]["project"]], jobs |-> job_id[i]]
               /\ exc[i].arg.response = observed[i][n]
          /\ lastSucceeded => (pc[i] = "returned" /\ exc[i] = NoException)

\* an invocation failed after a first payload that differs from the last one
C2_Witness ==
  \E i \in Invocations :
    /\ pc[i] = "raised"
    /\ exc[i].type = "RuntimeError"
    /\ Len(observed[i]) = 2
    /\ observed[i][1].detail # observed[i][2].detail

\* the merge of the fixed labels with the caller's: every key of both, the
\* caller's value on a collision
MergedLabels(fixed, callers) ==
  [k \in (DOMAIN fixed) \cup (DOMAIN callers) |->
     IF k \in DOMAIN callers THEN callers[k] ELSE fixed[k]]

\* the caller's labels, absent labels counting as empty
CallerLabelsOf(ci) == IF "labels" \in DOMAIN ci THEN ci["labels"] ELSE EmptyDict

\* the bodies of the create calls an invocation has issued
SubmittedBodies(i) ==
  {trace[i][k].arg.body : k \in {m \in 1..Len(trace[i]) : trace[i][m].op = "jobs.create"}}

\* C6: the labels of the submitted trainingInput are the merge of the fixed
\* observability labels with the caller's labels, the caller's value kept on
\* a key collision.
C6_LabelsAreMerged ==
  \A i \in Invocations :
    \A b \in SubmittedBodies(i) :
      /\ "labels" \in DOMAIN b.trainingInput
      /\ b.trainingInput["labels"] = MergedLabels(get_labels_dict, CallerLabelsOf(caller_inputs[i]))

\* the caller's configuration names a container image
SuppliesImage(ci) == "masterConfig" \in DOMAIN ci /\ "imageUri" \in DOMAIN ci["masterConfig"]

\* C7: a configuration without a container image (masterConfig absent, empty
\* or without imageUri) is submitted with masterConfig.imageUri equal to the
\* default image; a configuration with masterConfig.imageUri is submitted
\* with the caller's masterConfig unchanged.
C7_ImageDefaulted ==
  \A i \in Invocations :
    \A b \in SubmittedBodies(i) :
      LET mc == b.trainingInput["masterConfig"]
      IN  IF SuppliesImage(caller_inputs[i])
          THEN mc = caller_inputs[i]["masterConfig"]
          ELSE "imageUri" \in DOMAIN mc /\ mc["imageUri"] = _TFX_IMAGE

\* the invocation has reached the submission of line 157
ReachedSubmission(i) ==
  pc[i] \in {"get", "check", "returned"} \/ (pc[i] = "raised" /\ exc[i].type # "TypeError")

\* C8: the create call is issued once and never again in an invocation that
\* reaches the submission; when it fails in transport the error leaves the
\* function at once, and no status check and no sleep is ever issued.
C8_CreateOnceNoRetry ==
  \A i \in Invocations :
    /\ Count(trace[i], "jobs.create") <= 1
    /\ ReachedSubmission(i) => Count(trace[i], "jobs.create") = 1
    /\ exc[i].type = "HttpError" =>
         /\ pc[i] = "raised"
         /\ Count(trace[i], "jobs.create") = 1
         /\ trace[i][Len(trace[i])].op = "jobs.create"
         /\ Count(trace[i], "jobs.get") = 0
         /\ Count(trace[i], "sleep") = 0
         /\ observed[i] = << >>

\* an invocation ended with the transport error of its create call
C8_Witness ==
  \E i \in Invocations :
    /\ pc[i] = "raised"
    /\ exc[i].type = "HttpError"
    /\ Count(trace[i], "jobs.create") = 1

\* the job name every event of the invocation has to carry
ExpectedJobName(i) ==
  [parent |-> [projects |-> caller_inputs[i]["project"]], jobs |-> job_id[i]]

\* C9: the job identifier is fixed once chosen: a supplied job_id is used
\* unchanged, and the jobId of the create body, the job of every status
\* check, and the job of the success log and of the failure message are the
\* same value, under the project the create call's parent names.
C9_JobIdFixed ==
  \A i \in Invocations :
    /\ (Truthy(job_id_arg[i]) /\ pc[i] \notin {"start"} /\ exc[i].type # "TypeError")
         => job_id[i] = job_id_arg[i]
    /\ \A k \in 1..Len(trace[i]) :
         LET e == trace[i][k]
         IN  /\ e.op = "jobs.create" =>
                  /\ e.arg.body.jobId = job_id[i]
                  /\ e.arg.parent = [projects |-> caller_inputs[i]["project"]]
             /\ e.op = "jobs.get" => e.arg.name = ExpectedJobName(i)
             /\ (e.op = "log" /\ e.arg.what \in {"successful", "did not succeed"})
                  => e.arg.detail.job_name = ExpectedJobName(i)
    /\ exc[i].type = "RuntimeError" => exc[i].arg.job_name = ExpectedJobName(i)

\* an invocation without a job_id has polled twice and failed
C9_Witness ==
  \E i \in Invocations :
    /\ job_id_arg[i] = NoneValue
    /\ pc[i] = "raised"
    /\ exc[i].type = "RuntimeError"
    /\ Count(trace[i], "jobs.get") = 2

\* C10: two invocations without a job_id submit different job identifiers
\* and so never poll the same job resource name.
C10_GeneratedIdsUnique ==
  \A i \in Invocations : \A j \in Invocations :
    ( /\ i # j
      /\ job_id_arg[i] = NoneValue
      /\ job_id_arg[j] = NoneValue
      /\ Count(trace[i], "jobs.create") = 1
      /\ Count(trace[j], "jobs.create") = 1 )
    => /\ job_id[i] # job_id[j]
       /\ JobName(project[i], job_id[i]) # JobName(project[j], job_id[j])

(***************************************************************************)
(* Properties of deploy_model_for_aip_prediction.                            *)
(***************************************************************************)
DEnded == dpc \in {"returned", "raised"}

LastStatus == dobserved[Len(dobserved)]

\* C3: when the polled operation completes (done set) with an error field,
\* the call fails with RuntimeError carrying the error detail, the error is
\* logged before raising, and no set-default call is issued.
C3_DoneWithErrorRaises ==
  (DEnded /\ Len(dobserved) > 0 /\ IsDone(LastStatus) /\ HasError(LastStatus)) =>
    /\ dpc = "raised"
    /\ dexc.type = "RuntimeError"
    /\ "error" \in DOMAIN dexc.arg
    /\ dexc.arg.error = LastStatus["error"]
    /\ \E k \in 1..Len(dtrace) :
         /\ dtrace[k].op = "log"
         /\ dtrace[k].arg.level = "error"
    /\ Count(dtrace, "versions.setDefault") = 0

\* C4: when the operation is observed done without an error field, after
\* any number of not-done polls, exactly one set-default call is issued, for
\* projects/<project_id>/models/<model_name>/versions/<name in the operation
\* response>, only after the done response was observed, and the call then
\* returns with no further polling.  (The case is taken with the response
\* the claim names: a done status it can read the new version's name from.)
C4_SetDefaultOnce ==
  /\ Count(dtrace, "versions.setDefault") <= 1
  /\ Count(dtrace, "versions.setDefault") = 1 =>
       /\ Len(dobserved) > 0
       /\ IsDone(LastStatus)
       /\ LastIndex(dtrace, "versions.setDefault") > LastIndex(dtrace, "operations.get")
       /\ LastIndex(dtrace, "versions.setDefault") > LastIndex(dtrace, "sleep")
  /\ ( /\ DEnded
       /\ Len(dobserved) > 0
       /\ IsDone(LastStatus)
       /\ ~HasError(LastStatus)
       /\ "response" \in DOMAIN LastStatus )
     => /\ dpc = "returned"
        /\ dexc = NoException
        /\ Count(dtrace, "versions.setDefault") = 1
        /\ \A k \in 1..(Len(dobserved) - 1) : ~IsDone(dobserved[k])
        /\ Count(dtrace, "operations.get") = Len(dobserved)
        /\ dtrace[LastIndex(dtrace, "versions.setDefault")].arg.name =
             [parent |-> [parent |-> [projects |-> serving_args["project_id"]],
                          models |-> serving_args["model_name"]],
              versions |-> LastStatus["response"]["name"]]

\* the deployment returned after two not-done polls and a done one whose
\* response names a version other than v<model_version>
C4_Witness ==
  /\ dpc = "returned"
  /\ Len(dobserved) = 3
  /\ ~HasError(LastStatus)
  /\ LastStatus["response"]["name"] # VersionName(model_version)
  /\ Count(dtrace, "versions.setDefault") = 1

RemoteCallsAfterModelCreate ==
  Count(dtrace, "versions.create") + Count(dtrace, "operations.get")
    + Count(dtrace, "versions.setDefault")

\* C5: a models.create answered with the conflict status 409 does not raise
\* and the deployment goes on to the version-creation request; answered
\* with any other error status it raises, and no version-creation,
\* operation-get or set-default call is issued.
C5_ConflictIgnored ==
  /\ create_status = 409 =>
       /\ dpc \in {"version", "poll", "check", "returned", "raised"}
       /\ dpc # "version" => Count(dtrace, "versions.create") = 1
       /\ dpc = "raised" => Len(dobserved) > 0
  /\ create_status \in OtherHttpStatuses =>
       /\ dpc = "raised"
       /\ dexc.type = "RuntimeError"
       /\ RemoteCallsAfterModelCreate = 0

\* the model existed already and the deployment still returned
C5_Witness ==
  /\ create_status = 409
  /\ dpc = "returned"
  /\ Count(dtrace, "versions.create") = 1

\* a call to the remote service, as opposed to a log line or a sleep
IsRemoteCall(e) == e.op \notin {"log", "sleep"}

\* the remote calls of the deployment, in the order they were issued
DeployCalls == SelectSeq(dtrace, IsRemoteCall)

\* C11: the runtime version is the override-table entry of major.minor when
\* there is one (1.15 gives 1.14) and major.minor itself otherwise (1.13.x
\* gives 1.13); the interpreter version is 2.7 for major version 2 and 3.5
\* for 3; for any other major version the lookup fails with KeyError and the
\* deployment ends before any remote call.
C11_VersionResolution ==
  dpc \notin {"off", "start"} =>
    /\ runtime_version =
         (IF tf_version[1] = 1 /\ tf_version[2] = 15
          THEN <<1, 14>>
          ELSE <<tf_version[1], tf_version[2]>>)
    /\ py_major = 2 => python_version = "2.7"
    /\ py_major = 3 => python_version = "3.5"
    /\ py_major \notin {2, 3} =>
         /\ dpc = "raised"
         /\ dexc = [type |-> "KeyError", arg |-> [key |-> py_major]]
         /\ DeployCalls = << >>

\* tensorflow 1.15 was resolved to 1.14 and interpreter 4 ended the deployment
C11_Witness ==
  /\ dpc = "raised"
  /\ tf_version = <<1, 15, 0>>
  /\ runtime_version = <<1, 14>>
  /\ py_major = 4
  /\ dexc.type = "KeyError"

\* the fields start_aip_training assigns itself (lines 136, 140, 141)
AssignedFields == {"masterConfig", "args", "labels"}

\* C12: the project goes out only as the path parameter: the create call's
\* parent is projects/<project>, and the trainingInput of its body has no
\* project field while every other field the caller supplied is still there
\* (with the caller's value, for the fields the function does not assign).
C12_ProjectOnlyInPath ==
  \A i \in Invocations :
    \A k \in 1..Len(trace[i]) :
      trace[i][k].op = "jobs.create" =>
        LET ti == trace[i][k].arg.body.trainingInput
            ci == caller_inputs[i]
        IN  /\ trace[i][k].arg.parent = [projects |-> ci["project"]]
            /\ "project" \notin DOMAIN ti
            /\ \A f \in (DOMAIN ci) \ {"project"} : f \in DOMAIN ti
            /\ \A f \in (DOMAIN ci) \ ({"project"} \cup AssignedFields) : ti[f] = ci[f]

\* a job was submitted for a configuration with scaleTier, masterConfig and labels
C12_Witness ==
  \E i \in Invocations :
    /\ Count(trace[i], "jobs.create") = 1
    /\ {"project", "scaleTier", "masterConfig", "labels"} \subseteq DOMAIN caller_inputs[i]
    /\ caller_inputs[i]["project"] = "p2"

\* the job was created and its polling has begun
PollingStarted(i) == Count(trace[i], "jobs.create") = 1 /\ exc[i].type # "HttpError"

NoTerminalObserved(i) ==
  \A k \in 1..Len(observed[i]) : observed[i][k].state \notin TerminalStates

\* C13: there is no timeout or cancellation: while every observed state is
\* outside {SUCCEEDED, FAILED} the invocation is still polling and has
\* neither returned nor raised, and a non-terminal response is followed by
\* the next status check; once the service has reported SUCCEEDED or FAILED
\* the call ends (returns or raises).
C13_PollsUntilTerminal ==
  /\ [](\A i \in Invocations :
          (PollingStarted(i) /\ NoTerminalObserved(i)) =>
             (pc[i] \in {"get", "check"} /\ exc[i] = NoException))
  /\ \A i \in Procs :
       (pc[i] = "check" /\ response[i].state \notin TerminalStates) ~> (pc[i] = "get")
  /\ \A i \in Procs :
       (pc[i] = "check" /\ response[i].state \in TerminalStates) ~> Ended(i)

\* an invocation is about to poll again after two non-terminal responses
C13_Witness ==
  \E i \in Invocations :
    /\ pc[i] = "get"
    /\ Len(observed[i]) = 2
    /\ NoTerminalObserved(i)
    /\ Count(trace[i], "sleep") = 2

\* C14: polling of the version-creation operation goes on, one
\* operations.get per cycle with one sleep and one heartbeat log line
\* between consecutive gets, until a response has done set: while every
\* observed status has done unset, whatever else it carries, the call has
\* neither returned nor raised.
C14_PollsUntilDone ==
  (Count(dtrace, "versions.create") = 1 /\ \A k \in 1..Len(dobserved) : ~IsDone(dobserved[k])) =>
    /\ dpc \in {"poll", "check"}
    /\ dexc = NoException
    /\ Count(dtrace, "operations.get") = Len(dobserved)
    /\ \A k \in 1..Len(dtrace) :
         dtrace[k].op = "sleep" =>
           /\ dtrace[k - 1].op = "operations.get"
           /\ k < Len(dtrace)
           /\ dtrace[k + 1].op = "log"
           /\ dtrace[k + 1].arg.what = "still being deployed"

\* C15: the remote calls of a deployment come in the order models.create,
\* versions.create, operations.get (one or more), versions.setDefault, the
\* first two at most once; versions.create is issued only after
\* models.create succeeded or was answered with the conflict status; every
\* operations.get uses the operation name the versions.create response
\* returned; and the versions.create body names the version v<model_version>
\* under parent projects/<project_id>/models/<model_name>.
C15_CallOrder ==
  LET calls == DeployCalls
      n == Len(calls)
  IN  /\ \A k \in 1..n :
           IF k = 1 THEN calls[k].op = "models.create"
           ELSE IF k = 2 THEN calls[k].op = "versions.create"
           ELSE \/ calls[k].op = "operations.get"
                \/ (calls[k].op = "versions.setDefault" /\ k = n /\ k >= 4)
      /\ n >= 2 => create_status \in {200, 409}
      /\ \A k \in 1..n :
           /\ calls[k].op = "operations.get" => calls[k].arg.name = op_name
           /\ calls[k].op = "versions.create" =>
                /\ calls[k].arg.body.name = [prefix |-> "v", version |-> model_version]
                /\ calls[k].arg.parent =
                     [parent |-> [projects |-> serving_args["project_id"]],
                      models |-> serving_args["model_name"]]

\* a deployment of a new model returned after two operations.get calls
C15_Witness ==
  /\ dpc = "returned"
  /\ create_status = 200
  /\ Len(DeployCalls) = 5
  /\ DeployCalls[5].op = "versions.setDefault"

IsInfoLog(e) == e.op = "log" /\ e.arg.level = "info"

\* C16 as stated: an informational log line on submission, on submission
\* success (after the create call returns and before polling) and at the
\* entry of every poll cycle, and an error log line before raising when
\* the job FAILED.
C16_LogsEveryStage ==
  \A i \in Invocations :
    \A k \in 1..Len(trace[i]) :
      /\ trace[i][k].op = "jobs.create" => IsInfoLog(trace[i][k - 1])
      /\ trace[i][k].op = "jobs.get" => IsInfoLog(trace[i][k - 1])
      /\ (k = Len(trace[i]) /\ exc[i].type = "RuntimeError") =>
           (trace[i][k].op = "log" /\ trace[i][k].arg.level = "error")

\* C16, amended: an informational log line on submission, right before the
\* create call; no log line between the create call and the end of polling;
\* then one last line: informational when the job SUCCEEDED, before
\* returning, and an error line carrying the failure message when the job
\* FAILED, before raising.
C16_LogsOnSubmitAndEnd ==
  \A i \in Invocations :
    LET tr == trace[i]
        c == LastIndex(tr, "jobs.create")
    IN  /\ c > 0 =>
             /\ IsInfoLog(tr[c - 1])
             /\ tr[c - 1].arg.what = "Submitting"
             /\ \A k \in (c + 1)..Len(tr) :
                  tr[k].op = "log" => (k = Len(tr) /\ pc[i] \in {"returned", "raised"})
        /\ pc[i] = "returned" =>
             /\ IsInfoLog(tr[Len(tr)])
             /\ tr[Len(tr)].arg.what = "successful"
        /\ exc[i].type = "RuntimeError" =>
             /\ tr[Len(tr)].op = "log"
             /\ tr[Len(tr)].arg.level = "error"
             /\ tr[Len(tr)].arg.detail = exc[i].arg

\* an invocation polled through a sleep and ended with the error line
C16_Witness ==
  \E i \in Invocations :
    /\ exc[i].type = "RuntimeError"
    /\ Count(trace[i], "sleep") = 1
    /\ trace[i][Len(trace[i])].op = "log"
    /\ Count(trace[i], "log") = 5

\* the mappings a caller can pass
CallerMappings ==
  {TrainingInputs(p, mc, lb) : p \in Projects, mc \in MasterConfigs, lb \in CallerLabels}

\* C17: the caller's job configuration mapping is left unchanged whatever
\* the outcome: no step of the call changes it, it keeps its project key,
\* and no args, labels or default masterConfig is added to it.
C17_CallerMappingUnchanged ==
  /\ [][caller_inputs' = caller_inputs]_vars
  /\ [](\A i \in Invocations :
          /\ caller_inputs[i] \in CallerMappings
          /\ "project" \in DOMAIN caller_inputs[i]
          /\ "args" \notin DOMAIN caller_inputs[i])

\* a call has ended whose local mapping got args, labels and the default
\* masterConfig while the caller passed a mapping with none of them
C17_Witness ==
  \E i \in Invocations :
    /\ Ended(i)
    /\ DOMAIN caller_inputs[i] = {"project", "scaleTier"}
    /\ DOMAIN training_inputs[i] = {"scaleTier", "masterConfig", "args", "labels"}
    /\ exc[i].type = "RuntimeError"

====
